---- MODULE Spec2Model ----
(***************************************************************************)
(* Link-preview metadata extraction of january: the meta-tag scan of       *)
(* Metadata::from, the provider rules of Metadata::generate_special, the   *)
(* image size pass Metadata::resolve_image, their driver                   *)
(* Metadata::resolve_external, and Error::status_code.                     *)
(*                                                                         *)
(* Strings are sequences of one-character strings, so that the regular     *)
(* expressions and the integer parse are computed character by character.  *)
(* Option<T> is a sequence of length at most one: <<>> is None, <<x>> is   *)
(* Some(x).                                                                *)
(***************************************************************************)
EXTENDS Integers, Sequences, FiniteSets, TLC

None == <<>>
Some(x) == <<x>>

(***************************************************************************)
(* Character classes of the regex crate, restricted to ASCII.              *)
(***************************************************************************)
Lower == {"a", "b", "c", "d", "e", "f", "g", "h", "i", "j", "k", "l", "m", "n", "o", "p", "q", "r", "s", "t", "u", "v", "w", "x", "y", "z"}
Upper == {"A", "B", "C", "D", "E", "F", "G", "H", "I", "J", "K", "L", "M", "N", "O", "P", "Q", "R", "S", "T", "U", "V", "W", "X", "Y", "Z"}
Digit == {"0", "1", "2", "3", "4", "5", "6", "7", "8", "9"}
\* \w
Word == Lower \cup Upper \cup Digit \cup {"_"}
\* [\w\-]
WordDash == Word \cup {"-"}
\* [a-z0-9_]
LowerDigitUnderscore == Lower \cup Digit \cup {"_"}
\* A-z : the ASCII range 0x41..0x7A, which also holds six punctuation characters.
\* The grave accent (0x60) cannot be written in a TLA+ string: "grave" stands for it.
AtoZRange == Upper \cup {"[", "\\", "]", "^", "_", "grave"} \cup Lower
\* [A-z0-9]
AzDigit == AtoZRange \cup Digit
\* [A-z0-9_-] and [A-z0-9-]  (_ is inside A-z already)
AzDigitDash == AtoZRange \cup Digit \cup {"-"}
\* [a-zA-Z0-9-]
AlnumDash == Lower \cup Upper \cup Digit \cup {"-"}
\* \s
Whitespace == {" ", "\t", "\n", "\r", "\f"}

(***************************************************************************)
(* Regular expression syntax trees.                                        *)
(***************************************************************************)
Lit(s) == [t |-> "lit", s |-> s]
Set(cs) == [t |-> "set", cs |-> cs]
Dot == [t |-> "dot"]
NonSpace == [t |-> "nonspace"]
Bol == [t |-> "bol"]
Eol == [t |-> "eol"]
Cat(rs) == [t |-> "cat", rs |-> rs]
Alt(rs) == [t |-> "alt", rs |-> rs]
Opt(r) == [t |-> "opt", r |-> r]
Plus(r) == [t |-> "plus", r |-> r]
Cap(n, r) == [t |-> "cap", n |-> n, r |-> r]

NoCaps == <<None, None>>

(***************************************************************************)
(* Leftmost-first matching, as the regex crate reports it: M gives the     *)
(* ways r can match s from st.pos, in the order of preference (earlier     *)
(* alternative first, greedy repetition longest first).  A way is the      *)
(* position after the match and the groups captured so far.                *)
(***************************************************************************)
RECURSIVE M(_, _, _), MCat(_, _, _, _), MCatEach(_, _, _, _, _), MAlt(_, _, _, _), MPlus(_, _, _), MPlusEach(_, _, _, _, _)

IsPrefixAt(lit, s, pos) ==
    /\ pos + Len(lit) - 1 <= Len(s)
    /\ \A i \in 1..Len(lit) : s[pos + i - 1] = lit[i]

M(r, s, st) ==
    CASE r.t = "lit" ->
           IF IsPrefixAt(r.s, s, st.pos) THEN <<[st EXCEPT !.pos = @ + Len(r.s)]>> ELSE <<>>
      [] r.t = "set" ->
           IF st.pos <= Len(s) /\ s[st.pos] \in r.cs THEN <<[st EXCEPT !.pos = @ + 1]>> ELSE <<>>
      [] r.t = "dot" ->
           IF st.pos <= Len(s) /\ s[st.pos] # "\n" THEN <<[st EXCEPT !.pos = @ + 1]>> ELSE <<>>
      [] r.t = "nonspace" ->
           IF st.pos <= Len(s) /\ s[st.pos] \notin Whitespace THEN <<[st EXCEPT !.pos = @ + 1]>> ELSE <<>>
      [] r.t = "bol" -> IF st.pos = 1 THEN <<st>> ELSE <<>>
      [] r.t = "eol" -> IF st.pos = Len(s) + 1 THEN <<st>> ELSE <<>>
      [] r.t = "cat" -> MCat(r.rs, 1, s, st)
      [] r.t = "alt" -> MAlt(r.rs, 1, s, st)
      [] r.t = "opt" -> M(r.r, s, st) \o <<st>>
      [] r.t = "plus" -> MPlus(r.r, s, st)
      [] r.t = "cap" ->
           LET inner == M(r.r, s, st)
           IN  [i \in 1..Len(inner) |->
                  [inner[i] EXCEPT !.caps[r.n] = Some(SubSeq(s, st.pos, inner[i].pos - 1))]]

MCat(rs, k, s, st) ==
    IF k > Len(rs) THEN <<st>>
    ELSE MCatEach(rs, k + 1, s, M(rs[k], s, st), 1)

MCatEach(rs, k, s, sts, i) ==
    IF i > Len(sts) THEN <<>>
    ELSE MCat(rs, k, s, sts[i]) \o MCatEach(rs, k, s, sts, i + 1)

MAlt(rs, k, s, st) ==
    IF k > Len(rs) THEN <<>>
    ELSE M(rs[k], s, st) \o MAlt(rs, k + 1, s, st)

MPlus(r, s, st) == MPlusEach(r, s, M(r, s, st), 1, st.pos)

MPlusEach(r, s, sts, i, from) ==
    IF i > Len(sts) THEN <<>>
    ELSE (IF sts[i].pos > from THEN MPlus(r, s, sts[i]) ELSE <<>>)
         \o <<sts[i]>> \o MPlusEach(r, s, sts, i + 1, from)

RECURSIVE SearchFrom(_, _, _)
SearchFrom(re, s, i) ==
    IF i > Len(s) + 1 THEN None
    ELSE LET ways == M(re, s, [pos |-> i, caps |-> NoCaps])
         IN  IF Len(ways) > 0 THEN Some(ways[1].caps) ELSE SearchFrom(re, s, i + 1)

\* re.captures_iter(s).next(): the groups of the first match, if any
Captures(re, s) == SearchFrom(re, s, 1)
\* re.is_match(s)
IsMatch(re, s) == Captures(re, s) # None

(***************************************************************************)
(* The provider patterns of generate_special.                              *)
(***************************************************************************)
\* (?:https?://)?
SchemeOpt == Opt(Cat(<<Lit(<<"h","t","t","p">>), Opt(Lit(<<"s">>)), Lit(<<":","/","/">>)>>))
\* (?:www\.|go\.)?
WwwGoOpt == Opt(Alt(<<Lit(<<"w","w","w",".">>), Lit(<<"g","o",".">>)>>))
\* ($|\?)
EndOrQuery == Cap(2, Alt(<<Eol, Lit(<<"?">>)>>))

\* ^(?:(?:https?:)?//)?(?:(?:www|m)\.)?(?:(?:youtube\.com|youtu.be))(?:/(?:[\w\-]+\?v=|embed/|v/)?)([\w\-]+)(?:\S+)?$
RE_YOUTUBE ==
    Cat(<<Bol,
          Opt(Cat(<<Opt(Cat(<<Lit(<<"h","t","t","p">>), Opt(Lit(<<"s">>)), Lit(<<":">>)>>)), Lit(<<"/","/">>)>>)),
          Opt(Cat(<<Alt(<<Lit(<<"w","w","w">>), Lit(<<"m">>)>>), Lit(<<".">>)>>)),
          Alt(<<Lit(<<"y","o","u","t","u","b","e",".","c","o","m">>), Cat(<<Lit(<<"y","o","u","t","u">>), Dot, Lit(<<"b","e">>)>>)>>),
          Cat(<<Lit(<<"/">>),
                Opt(Alt(<<Cat(<<Plus(Set(WordDash)), Lit(<<"?","v","=">>)>>), Lit(<<"e","m","b","e","d","/">>), Lit(<<"v","/">>)>>))>>),
          Cap(1, Plus(Set(WordDash))),
          Opt(Plus(NonSpace)),
          Eol>>)

\* (?:\?|&)(?:t|start)=([\w]+)
RE_TIMESTAMP ==
    Cat(<<Alt(<<Lit(<<"?">>), Lit(<<"&">>)>>), Alt(<<Lit(<<"t">>), Lit(<<"s","t","a","r","t">>)>>), Lit(<<"=">>),
          Cap(1, Plus(Set(Word)))>>)

\* the channel pattern without its end: ^(?:https?://)?(?:www\.|go\.)?twitch\.tv/([a-z0-9_]+)
RE_TWITCH_OPEN_END ==
    Cat(<<Bol, SchemeOpt, WwwGoOpt, Lit(<<"t","w","i","t","c","h",".","t","v","/">>), Cap(1, Plus(Set(LowerDigitUnderscore)))>>)

\* ^(?:https?://)?(?:www\.|go\.)?twitch\.tv/([a-z0-9_]+)($|\?)
RE_TWITCH ==
    Cat(<<Bol, SchemeOpt, WwwGoOpt, Lit(<<"t","w","i","t","c","h",".","t","v","/">>),
          Cap(1, Plus(Set(LowerDigitUnderscore))), EndOrQuery>>)

\* ^(?:https?://)?(?:www\.|go\.)?twitch\.tv/videos/([0-9]+)($|\?)
RE_TWITCH_VOD ==
    Cat(<<Bol, SchemeOpt, WwwGoOpt, Lit(<<"t","w","i","t","c","h",".","t","v","/","v","i","d","e","o","s","/">>),
          Cap(1, Plus(Set(Digit))), EndOrQuery>>)

\* ^(?:https?://)?(?:www\.|go\.)?twitch\.tv/(?:[a-z0-9_]+)/clip/([A-z0-9_-]+)($|\?)
RE_TWITCH_CLIP ==
    Cat(<<Bol, SchemeOpt, WwwGoOpt, Lit(<<"t","w","i","t","c","h",".","t","v","/">>), Plus(Set(LowerDigitUnderscore)),
          Lit(<<"/","c","l","i","p","/">>), Cap(1, Plus(Set(AzDigitDash))), EndOrQuery>>)

\* ^(?:https?://)?open.spotify.com/(track|user|artist|album|playlist)/([A-z0-9]+)
RE_SPOTIFY ==
    Cat(<<Bol, SchemeOpt, Lit(<<"o","p","e","n">>), Dot, Lit(<<"s","p","o","t","i","f","y">>), Dot, Lit(<<"c","o","m","/">>),
          Cap(1, Alt(<<Lit(<<"t","r","a","c","k">>), Lit(<<"u","s","e","r">>), Lit(<<"a","r","t","i","s","t">>), Lit(<<"a","l","b","u","m">>),
                       Lit(<<"p","l","a","y","l","i","s","t">>)>>)),
          Lit(<<"/">>), Cap(2, Plus(Set(AzDigit)))>>)

\* the domain alone: ^(?:https?://)?soundcloud.com
RE_SOUNDCLOUD_DOMAIN == Cat(<<Bol, SchemeOpt, Lit(<<"s","o","u","n","d","c","l","o","u","d">>), Dot, Lit(<<"c","o","m">>)>>)

\* ^(?:https?://)?soundcloud.com/([a-zA-Z0-9-]+)/([A-z0-9-]+)
RE_SOUNDCLOUD ==
    Cat(<<Bol, SchemeOpt, Lit(<<"s","o","u","n","d","c","l","o","u","d">>), Dot, Lit(<<"c","o","m","/">>),
          Cap(1, Plus(Set(AlnumDash))), Lit(<<"/">>), Cap(2, Plus(Set(AzDigitDash)))>>)

\* ^(?:https?://)?(?:[A-z0-9_-]+).bandcamp.com/(track|album)/([A-z0-9_-]+)
RE_BANDCAMP ==
    Cat(<<Bol, SchemeOpt, Plus(Set(AzDigitDash)), Dot, Lit(<<"b","a","n","d","c","a","m","p">>), Dot, Lit(<<"c","o","m","/">>),
          Cap(1, Alt(<<Lit(<<"t","r","a","c","k">>), Lit(<<"a","l","b","u","m">>)>>)),
          Lit(<<"/">>), Cap(2, Plus(Set(AzDigitDash)))>>)

\* track=(\d+)
RE_TRACK == Cat(<<Lit(<<"t","r","a","c","k","=">>), Cap(1, Plus(Set(Digit)))>>)
\* album=(\d+)
RE_ALBUM == Cat(<<Lit(<<"a","l","b","u","m","=">>), Cap(1, Plus(Set(Digit)))>>)

(***************************************************************************)
(* Special, TwitchType, BandcampType.                                      *)
(***************************************************************************)
SpecialNone == [type |-> "None"]
YouTube(id, timestamp) == [type |-> "YouTube", id |-> id, timestamp |-> timestamp]
Twitch(id, content_type) == [type |-> "Twitch", content_type |-> content_type, id |-> id]
Spotify(content_type, id) == [type |-> "Spotify", content_type |-> content_type, id |-> id]
Soundcloud == [type |-> "Soundcloud"]
Bandcamp(content_type, id) == [type |-> "Bandcamp", content_type |-> content_type, id |-> id]

\* Metadata::generate_special on self.url and self.video; it always returns Ok
generate_special(url, video) ==
    LET yt == Captures(RE_YOUTUBE, url)
        ch == Captures(RE_TWITCH, url)
        vod == Captures(RE_TWITCH_VOD, url)
        clip == Captures(RE_TWITCH_CLIP, url)
        sp == Captures(RE_SPOTIFY, url)
    IN  IF yt # None THEN
            IF video # None THEN
                LET ts == Captures(RE_TIMESTAMP, video[1].url)
                IN  IF ts # None THEN YouTube(yt[1][1][1], Some(ts[1][1][1]))
                    ELSE YouTube(yt[1][1][1], None)
            ELSE SpecialNone
        ELSE IF ch # None THEN Twitch(ch[1][1][1], "Channel")
        ELSE IF vod # None THEN Twitch(vod[1][1][1], "Video")
        ELSE IF clip # None THEN Twitch(clip[1][1][1], "Clip")
        ELSE IF sp # None THEN Spotify(sp[1][1][1], sp[1][2][1])
        ELSE IF IsMatch(RE_SOUNDCLOUD, url) THEN Soundcloud
        ELSE IF IsMatch(RE_BANDCAMP, url) THEN
            IF video # None THEN
                LET tr == Captures(RE_TRACK, video[1].url)
                    al == Captures(RE_ALBUM, video[1].url)
                IN  IF tr # None THEN Bandcamp("Track", tr[1][1][1])
                    ELSE IF al # None THEN Bandcamp("Album", al[1][1][1])
                    ELSE SpecialNone
            ELSE SpecialNone
        ELSE SpecialNone

(***************************************************************************)
(* media.rs: Image, Video, ImageSize; metadata.rs: Metadata.               *)
(***************************************************************************)
\* ImageSize::default()
ImageSizeDefault == "Preview"
\* Image::default(): String::default(), 0, 0, ImageSize::default()
ImageDefault == [url |-> <<>>, width |-> 0, height |-> 0, size |-> ImageSizeDefault]
\* Video::default()
VideoDefault == [url |-> <<>>, width |-> 0, height |-> 0]
\* Metadata::default()
MetadataDefault ==
    [url |-> <<>>, special |-> None, title |-> None, description |-> None,
     image |-> None, video |-> None, opengraph_type |-> None, site_name |-> None,
     icon_url |-> None, colour |-> None]

\* Option::get_or_insert_with(Default::default)
GetOrInsert(opt, default) == IF opt = None THEN default ELSE opt[1]

(***************************************************************************)
(* str::parse::<isize>().unwrap_or_default(): an optional sign, then one   *)
(* or more ASCII digits; anything else is an error, which gives 0.  The    *)
(* contents modelled have at most four digits, far inside the isize range. *)
(***************************************************************************)
DigitSeq == <<"0", "1", "2", "3", "4", "5", "6", "7", "8", "9">>
DigitValue(c) == (CHOOSE i \in 1..Len(DigitSeq) : DigitSeq[i] = c) - 1

RECURSIVE DigitsValue(_, _)
DigitsValue(s, n) == IF n = 0 THEN 0 ELSE 10 * DigitsValue(s, n - 1) + DigitValue(s[n])

AllDigits(s) == Len(s) > 0 /\ \A i \in 1..Len(s) : s[i] \in Digit

ParseIsizeOrDefault(s) ==
    IF Len(s) = 0 THEN 0
    ELSE IF s[1] = "-" THEN
        (IF AllDigits(Tail(s)) THEN 0 - DigitsValue(Tail(s), Len(s) - 1) ELSE 0)
    ELSE IF s[1] = "+" THEN
        (IF AllDigits(Tail(s)) THEN DigitsValue(Tail(s), Len(s) - 1) ELSE 0)
    ELSE IF AllDigits(s) THEN DigitsValue(s, Len(s))
    ELSE 0

(***************************************************************************)
(* Metadata::from.  A link tag is [rel, href], a meta tag is               *)
(* [property, name, content], every attribute an Option.                   *)
(***************************************************************************)
\* links: the link tags that carry both rel and href, as (rel, href)
LinkPair(tag) ==
    IF tag.rel # None /\ tag.href # None THEN Some(<<tag.rel[1], tag.href[1]>>) ELSE None

IsIconLink(tag) ==
    LET p == LinkPair(tag)
    IN  p # None /\ (p[1][1] = <<"a","p","p","l","e","-","t","o","u","c","h","-","i","c","o","n">> \/ p[1][1] = <<"i","c","o","n">>)

\* the icon link or else the default String (unwrap_or_default for unwrap_or(url))
FindIconOrEmpty(links, i, url) ==
    LET icons == {k \in i..Len(links) : IsIconLink(links[k])}
    IN  IF icons = {} THEN <<>>
        ELSE links[CHOOSE k \in icons : \A j \in icons : k <= j].href[1]

\* links.find_map(..).unwrap_or(url)
RECURSIVE FindIcon(_, _, _)
FindIcon(links, i, url) ==
    IF i > Len(links) THEN url
    ELSE IF IsIconLink(links[i]) THEN LinkPair(links[i])[1][2]
    ELSE FindIcon(links, i + 1, url)

\* props: property, or else name, and then content
Prop(tag) ==
    LET key == IF tag.property # None THEN tag.property ELSE tag.name
    IN  IF key # None /\ tag.content # None THEN Some(<<key[1], tag.content[1]>>) ELSE None

TitleKeys == {<<"o","g",":","t","i","t","l","e">>, <<"t","w","i","t","t","e","r",":","t","i","t","l","e">>, <<"t","i","t","l","e">>}
DescriptionKeys == {<<"o","g",":","d","e","s","c","r","i","p","t","i","o","n">>, <<"t","w","i","t","t","e","r",":","d","e","s","c","r","i","p","t","i","o","n">>, <<"d","e","s","c","r","i","p","t","i","o","n">>}
ImageKeys == {<<"o","g",":","i","m","a","g","e">>, <<"o","g",":","i","m","a","g","e",":","s","e","c","u","r","e","_","u","r","l">>, <<"t","w","i","t","t","e","r",":","i","m","a","g","e">>, <<"t","w","i","t","t","e","r",":","i","m","a","g","e",":","s","r","c">>}
VideoKeys == {<<"o","g",":","v","i","d","e","o">>, <<"o","g",":","v","i","d","e","o",":","s","e","c","u","r","e","_","u","r","l">>, <<"t","w","i","t","t","e","r",":","v","i","d","e","o">>, <<"t","w","i","t","t","e","r",":","v","i","d","e","o",":","s","r","c">>}

\* the title arm without the is_some() check
SetTitleAlways(m, value) == [m EXCEPT !.title = Some(value)]

\* the arms of the match on name
SetTitle(m, value) == IF m.title # None THEN m ELSE [m EXCEPT !.title = Some(value)]

SetDescription(m, value) ==
    IF m.description # None THEN m ELSE [m EXCEPT !.description = Some(value)]

SetImageUrl(m, value) ==
    IF m.image # None THEN m
    ELSE [m EXCEPT !.image = Some([GetOrInsert(m.image, ImageDefault) EXCEPT !.url = value])]

SetImageWidth(m, value) ==
    [m EXCEPT !.image = Some([GetOrInsert(m.image, ImageDefault)
                                EXCEPT !.width = ParseIsizeOrDefault(value)])]

SetImageHeight(m, value) ==
    [m EXCEPT !.image = Some([GetOrInsert(m.image, ImageDefault)
                                EXCEPT !.height = ParseIsizeOrDefault(value)])]

SetVideoUrl(m, value) ==
    IF m.video # None THEN m
    ELSE [m EXCEPT !.video = Some([GetOrInsert(m.video, VideoDefault) EXCEPT !.url = value])]

SetVideoWidth(m, value) ==
    [m EXCEPT !.video = Some([GetOrInsert(m.video, VideoDefault)
                                EXCEPT !.width = ParseIsizeOrDefault(value)])]

SetVideoHeight(m, value) ==
    [m EXCEPT !.video = Some([GetOrInsert(m.video, VideoDefault)
                                EXCEPT !.height = ParseIsizeOrDefault(value)])]

SetCard(m, value) ==
    IF value = <<"s","u","m","m","a","r","y","_","l","a","r","g","e","_","i","m","a","g","e">>
    THEN [m EXCEPT !.image = Some([GetOrInsert(m.image, ImageDefault) EXCEPT !.size = "Large"])]
    ELSE m

\* one iteration of the loop over props: the match on name
ScanProp(m, name, value) ==
    CASE name \in TitleKeys -> SetTitle(m, value)
      [] name \in DescriptionKeys -> SetDescription(m, value)
      [] name \in ImageKeys -> SetImageUrl(m, value)
      [] name = <<"o","g",":","i","m","a","g","e",":","w","i","d","t","h">> -> SetImageWidth(m, value)
      [] name = <<"o","g",":","i","m","a","g","e",":","h","e","i","g","h","t">> -> SetImageHeight(m, value)
      [] name \in VideoKeys -> SetVideoUrl(m, value)
      [] name = <<"o","g",":","v","i","d","e","o",":","w","i","d","t","h">> -> SetVideoWidth(m, value)
      [] name = <<"o","g",":","v","i","d","e","o",":","h","e","i","g","h","t">> -> SetVideoHeight(m, value)
      [] name = <<"t","w","i","t","t","e","r",":","c","a","r","d">> -> SetCard(m, value)
      [] name = <<"t","h","e","m","e","-","c","o","l","o","r">> -> [m EXCEPT !.colour = Some(value)]
      [] name = <<"o","g",":","t","y","p","e">> -> [m EXCEPT !.opengraph_type = Some(value)]
      [] name = <<"o","g",":","s","i","t","e","_","n","a","m","e">> -> [m EXCEPT !.site_name = Some(value)]
      [] name = <<"o","g",":","u","r","l">> -> [m EXCEPT !.url = value]
      [] OTHER -> m

\* a meta tag of the document: skipped by the filter_map, or dispatched
ScanTag(m, tag) ==
    LET p == Prop(tag) IN IF p = None THEN m ELSE ScanProp(m, p[1][1], p[1][2])

\* Metadata::is_none
is_none(m) == m.title = None /\ m.description = None /\ m.image = None

(***************************************************************************)
(* result.rs: Error and Error::status_code.                                *)
(***************************************************************************)
Error ==
    {"CouldNotDetermineImageSize", "FailedToParseContentType", "FailedToConsumeBytes",
     "FailedToConsumeText", "MetaSelectionFailed", "MissingContentType", "NotAllowedToProxy",
     "ConversionFailed", "ReqwestFailed", "RequestFailed", "LabelMe"}

INTERNAL_SERVER_ERROR == 500
BAD_REQUEST == 400

\* status_code with the malformed content-type in the client class
status_code_parse_is_client(e) ==
    IF e \in {"MissingContentType", "NotAllowedToProxy", "RequestFailed", "FailedToParseContentType"}
    THEN BAD_REQUEST
    ELSE INTERNAL_SERVER_ERROR

status_code(e) ==
    CASE e = "CouldNotDetermineImageSize" -> INTERNAL_SERVER_ERROR
      [] e = "FailedToParseContentType" -> INTERNAL_SERVER_ERROR
      [] e = "FailedToConsumeBytes" -> INTERNAL_SERVER_ERROR
      [] e = "FailedToConsumeText" -> INTERNAL_SERVER_ERROR
      [] e = "MetaSelectionFailed" -> INTERNAL_SERVER_ERROR
      [] e = "MissingContentType" -> BAD_REQUEST
      [] e = "NotAllowedToProxy" -> BAD_REQUEST
      [] e = "ConversionFailed" -> INTERNAL_SERVER_ERROR
      [] e = "ReqwestFailed" -> INTERNAL_SERVER_ERROR
      [] e = "RequestFailed" -> BAD_REQUEST
      [] e = "LabelMe" -> INTERNAL_SERVER_ERROR

\* Error::error_response: the status of status_code, the error kind as the body
error_response(e) == [status |-> status_code(e), body |-> [type |-> e]]

(***************************************************************************)
(* Metadata::resolve_image and Metadata::resolve_external.  The secondary  *)
(* fetch and consume_size are collaborators: their result is an input,     *)
(* [ok |-> FALSE, err] or [ok |-> TRUE, width, height].                    *)
(***************************************************************************)
\* resolve_image returns Ok(()) without a fetch: no image, or both dimensions given
\* the early return taken when either dimension is given (|| for &&)
ImageSkipsFetchEither(m) ==
    \/ m.image = None
    \/ m.image[1].width # 0 \/ m.image[1].height # 0

ImageSkipsFetch(m) ==
    \/ m.image = None
    \/ m.image[1].width # 0 /\ m.image[1].height # 0

\* resolve_image once fetch and consume_size have answered o
resolve_image(m, o) ==
    IF ImageSkipsFetch(m) THEN [ok |-> TRUE, m |-> m]
    ELSE IF o.ok
    THEN [ok |-> TRUE,
          m |-> [m EXCEPT !.image = Some([m.image[1] EXCEPT !.width = o.width, !.height = o.height])]]
    ELSE [ok |-> FALSE, m |-> m]

\* the special pass of resolve_external
SetSpecial(m) == [m EXCEPT !.special = Some(generate_special(m.url, m.video))]

\* the image pass with the Err of resolve_image ignored
ImagePassKeepsImage(m, o) == resolve_image(m, o).m

\* the image pass with the whole record but url reset on Err
ImagePassResets(m, o) ==
    LET r == resolve_image(m, o)
    IN  IF r.ok THEN r.m ELSE [MetadataDefault EXCEPT !.url = r.m.url]

\* the image pass of resolve_external: resolve_image, the image dropped on Err
ImagePass(m, o) ==
    LET r == resolve_image(m, o) IN IF r.ok THEN r.m ELSE [r.m EXCEPT !.image = None]

\* resolve_external, in the order of the source
resolve_external(m, o) == ImagePass(SetSpecial(m), o)

(***************************************************************************)
(* Bounds and inputs of the model.                                         *)
(***************************************************************************)
\* meta tags in a document
MaxTags == 2
\* link tags in a document
MaxLinks == 2

URL_PAGE == <<"h","t","t","p","s",":","/","/","e","x","a","m","p","l","e",".","c","o","m","/","p","a","g","e">>
URL_TWITCH == <<"h","t","t","p","s",":","/","/","t","w","i","t","c","h",".","t","v","/","s","o","m","e","u","s","e","r">>
URL_YOUTUBE == <<"h","t","t","p","s",":","/","/","w","w","w",".","y","o","u","t","u","b","e",".","c","o","m","/","w","a","t","c","h","?","v","=","a","b","c","1","2","3","&","t","=","3","0">>
URL_ICON == <<"/","f","a","v","i","c","o","n",".","i","c","o">>
URL_IMG1 == <<"h","t","t","p","s",":","/","/","e","x","a","m","p","l","e",".","c","o","m","/","a",".","p","n","g">>
URL_IMG2 == <<"h","t","t","p","s",":","/","/","e","x","a","m","p","l","e",".","c","o","m","/","b",".","p","n","g">>
URL_VIDEO_YT == <<"h","t","t","p","s",":","/","/","w","w","w",".","y","o","u","t","u","b","e",".","c","o","m","/","e","m","b","e","d","/","a","b","c","1","2","3","?","s","t","a","r","t","=","3","0">>
URL_VIDEO_PLAIN == <<"h","t","t","p","s",":","/","/","e","x","a","m","p","l","e",".","c","o","m","/","v",".","m","p","4">>

\* the url argument of Metadata::from
FallbackURLs == {URL_PAGE, URL_TWITCH}

Link(rel, href) == [rel |-> rel, href |-> href]
LinkTags ==
    {Link(Some(<<"i","c","o","n">>), Some(URL_ICON)),
     Link(Some(<<"s","t","y","l","e","s","h","e","e","t">>), Some(<<"/","s",".","c","s","s">>)),
     Link(Some(<<"a","p","p","l","e","-","t","o","u","c","h","-","i","c","o","n">>), None)}
LinkDocs == UNION {[1..n -> LinkTags] : n \in 0..MaxLinks}

Meta(property, content) == [property |-> Some(property), name |-> None, content |-> Some(content)]
MetaName(name, content) == [property |-> None, name |-> Some(name), content |-> Some(content)]
MetaTags ==
    {Meta(<<"o","g",":","t","i","t","l","e">>, <<"A">>), MetaName(<<"t","i","t","l","e">>, <<"B">>),
     Meta(<<"o","g",":","d","e","s","c","r","i","p","t","i","o","n">>, <<"A">>), MetaName(<<"t","w","i","t","t","e","r",":","d","e","s","c","r","i","p","t","i","o","n">>, <<"B">>),
     Meta(<<"o","g",":","i","m","a","g","e">>, URL_IMG1), MetaName(<<"t","w","i","t","t","e","r",":","i","m","a","g","e",":","s","r","c">>, URL_IMG2),
     Meta(<<"o","g",":","i","m","a","g","e",":","w","i","d","t","h">>, <<"6","0","0">>), Meta(<<"o","g",":","i","m","a","g","e",":","w","i","d","t","h">>, <<"-","5">>),
     Meta(<<"o","g",":","i","m","a","g","e",":","w","i","d","t","h">>, <<"a","b","c">>),
     Meta(<<"o","g",":","i","m","a","g","e",":","h","e","i","g","h","t">>, <<"4","0","0">>), Meta(<<"o","g",":","i","m","a","g","e",":","h","e","i","g","h","t">>, <<"0">>),
     Meta(<<"o","g",":","v","i","d","e","o">>, URL_VIDEO_YT), MetaName(<<"t","w","i","t","t","e","r",":","v","i","d","e","o">>, URL_VIDEO_PLAIN),
     Meta(<<"o","g",":","v","i","d","e","o",":","w","i","d","t","h">>, <<"6","4","0">>), Meta(<<"o","g",":","v","i","d","e","o",":","h","e","i","g","h","t">>, <<"+","3","6","0">>),
     MetaName(<<"t","w","i","t","t","e","r",":","c","a","r","d">>, <<"s","u","m","m","a","r","y","_","l","a","r","g","e","_","i","m","a","g","e">>), MetaName(<<"t","w","i","t","t","e","r",":","c","a","r","d">>, <<"s","u","m","m","a","r","y">>),
     MetaName(<<"t","h","e","m","e","-","c","o","l","o","r">>, <<"#","f","f","f">>), MetaName(<<"t","h","e","m","e","-","c","o","l","o","r">>, <<"#","0","0","0">>),
     Meta(<<"o","g",":","t","y","p","e">>, <<"v","i","d","e","o">>), Meta(<<"o","g",":","s","i","t","e","_","n","a","m","e">>, <<"S","i","t","e">>),
     Meta(<<"o","g",":","u","r","l">>, URL_YOUTUBE), Meta(<<"o","g",":","u","r","l">>, URL_PAGE),
     MetaName(<<"v","i","e","w","p","o","r","t">>, <<"w","i","d","t","h","=","1">>),
     [property |-> Some(<<"o","g",":","t","i","t","l","e">>), name |-> None, content |-> None],
     [property |-> None, name |-> None, content |-> Some(<<"A">>)]}

\* the urls of the provider rules: every scheme, host and path below, combined
Schemes == {<<>>, <<"h","t","t","p","s",":","/","/">>, <<"h","t","t","p",":","/","/">>}
Hosts ==
    {<<"w","w","w",".","y","o","u","t","u","b","e",".","c","o","m">>, <<"m",".","y","o","u","t","u","b","e",".","c","o","m">>, <<"y","o","u","t","u",".","b","e">>, <<"t","w","i","t","c","h",".","t","v">>, <<"w","w","w",".","t","w","i","t","c","h",".","t","v">>,
     <<"g","o",".","t","w","i","t","c","h",".","t","v">>, <<"o","p","e","n",".","s","p","o","t","i","f","y",".","c","o","m">>,
     <<"s","o","u","n","d","c","l","o","u","d",".","c","o","m">>, <<"a","r","t","i","s","t",".","b","a","n","d","c","a","m","p",".","c","o","m">>, <<"e","x","a","m","p","l","e",".","c","o","m">>}
Paths ==
    {<<>>, <<"/">>, <<"/","w","a","t","c","h","?","v","=","a","b","c","1","2","3","&","t","=","3","0">>, <<"/","a","b","c","1","2","3">>, <<"/","e","m","b","e","d","/","a","b","c","1","2","3">>, <<"/","v","i","d","e","o","s">>,
     <<"/","v","i","d","e","o","s","/","9","9","8","8","7","7">>, <<"/","v","i","d","e","o","s","/","9","9","8","8","7","7","?","t","=","1","h">>, <<"/","s","o","m","e","u","s","e","r">>, <<"/","S","o","m","e","U","s","e","r">>,
     <<"/","s","o","m","e","u","s","e","r","/","c","l","i","p","/","A","b","C","d","1","2">>, <<"/","s","o","m","e","u","s","e","r","/","s","o","m","e","t","r","a","c","k">>, <<"/","a","l","b","u","m","/","X","Y","Z">>, <<"/","t","r","a","c","k","/","s","o","n","g","-","1">>}
WideURLs == {s \o h \o p : s \in Schemes, h \in Hosts, p \in Paths}

URL_VIDEO_YT_PLAIN == <<"h","t","t","p","s",":","/","/","w","w","w",".","y","o","u","t","u","b","e",".","c","o","m","/","e","m","b","e","d","/","a","b","c","1","2","3">>
URL_VIDEO_BC_TRACK == <<"h","t","t","p","s",":","/","/","b","a","n","d","c","a","m","p",".","c","o","m","/","E","m","b","e","d","d","e","d","P","l","a","y","e","r","/","v","=","2","/","t","r","a","c","k","=","1","2","3","/","s","i","z","e","=","l","a","r","g","e">>
WideMetaTags ==
    {Meta(<<"o","g",":","v","i","d","e","o">>, URL_VIDEO_YT), Meta(<<"o","g",":","v","i","d","e","o">>, URL_VIDEO_YT_PLAIN),
     MetaName(<<"t","w","i","t","t","e","r",":","v","i","d","e","o">>, URL_VIDEO_BC_TRACK), Meta(<<"o","g",":","i","m","a","g","e">>, URL_IMG1)}

\* the documents of the concurrent schedule
ConcMetaTags ==
    {Meta(<<"o","g",":","t","i","t","l","e">>, <<"A">>), Meta(<<"o","g",":","i","m","a","g","e">>, URL_IMG1),
     Meta(<<"o","g",":","i","m","a","g","e",":","w","i","d","t","h">>, <<"6","0","0">>), Meta(<<"o","g",":","i","m","a","g","e",":","h","e","i","g","h","t">>, <<"4","0","0">>),
     Meta(<<"o","g",":","i","m","a","g","e",":","h","e","i","g","h","t">>, <<"0">>), Meta(<<"o","g",":","v","i","d","e","o">>, URL_VIDEO_YT),
     Meta(<<"o","g",":","u","r","l">>, URL_YOUTUBE), MetaName(<<"t","w","i","t","t","e","r",":","c","a","r","d">>, <<"s","u","m","m","a","r","y","_","l","a","r","g","e","_","i","m","a","g","e">>)}
ConcLinkDocs == {<<>>, <<Link(Some(<<"i","c","o","n">>), Some(URL_ICON))>>}

\* what fetch and consume_size can answer
FetchOutcomes ==
    {[ok |-> FALSE, err |-> "RequestFailed"], [ok |-> FALSE, err |-> "CouldNotDetermineImageSize"],
     [ok |-> TRUE, width |-> 800, height |-> 600], [ok |-> TRUE, width |-> 1, height |-> 1]}

(***************************************************************************)
(* One request.                                                            *)
(***************************************************************************)
VARIABLES
    pc,          \* start, scan, resolve, done, error
    arg_url,     \* the url argument of Metadata::from
    nlinks,      \* link tags of the document
    ntags,       \* meta tags of the document scanned so far
    last,        \* the (name, value) of the loop's latest iteration, if the tag had them
    first_image, \* the content of the first image-url tag scanned, if any
    metadata,    \* the Metadata record
    scanned,     \* the Metadata as Metadata::from returned it
    passS,       \* the special pass: todo, done
    passI,       \* the image pass: todo, fetching, done
    fetched,     \* the urls given to the secondary fetch
    outcome,     \* what the secondary fetch answered, if it has
    response     \* the error response, if any

vars == <<pc, arg_url, nlinks, ntags, last, first_image, metadata, scanned, passS, passI, fetched,
          outcome, response>>

InitOver(urls) ==
    /\ pc = "start"
    /\ arg_url \in urls
    /\ nlinks = 0
    /\ ntags = 0
    /\ last = None
    /\ first_image = None
    /\ metadata = MetadataDefault
    /\ scanned = None
    /\ passS = "todo"
    /\ passI = "todo"
    /\ fetched = <<>>
    /\ outcome = None
    /\ response = None

Init == InitOver(FallbackURLs)

\* a handler returns Err(e): the response is e.error_response()
RespondError ==
    /\ pc = "start"
    /\ \E e \in Error : response' = Some(error_response(e))
    /\ pc' = "error"
    /\ UNCHANGED <<arg_url, nlinks, ntags, last, first_image, metadata, scanned, passS, passI, fetched,
                   outcome>>

\* Metadata::from up to the construction of the record: the icon link, or else url
FromLinksOver(docs) ==
    /\ pc = "start"
    /\ \E links \in docs :
         /\ metadata' = [MetadataDefault EXCEPT !.url = FindIcon(links, 1, arg_url)]
         /\ nlinks' = Len(links)
    /\ pc' = "scan"
    /\ UNCHANGED <<arg_url, ntags, last, first_image, scanned, passS, passI, fetched, outcome, response>>

FromLinks == FromLinksOver(LinkDocs)

IsImageUrlTag(tag) == Prop(tag) # None /\ Prop(tag)[1][1] \in ImageKeys

\* Metadata::from, the loop: the next meta tag of the document
FromScanOver(tags) ==
    /\ pc = "scan"
    /\ ntags < MaxTags
    /\ \E tag \in tags :
         /\ metadata' = ScanTag(metadata, tag)
         /\ last' = Prop(tag)
         /\ first_image' = IF first_image = None /\ IsImageUrlTag(tag)
                           THEN Some(Prop(tag)[1][2]) ELSE first_image
    /\ ntags' = ntags + 1
    /\ UNCHANGED <<pc, arg_url, nlinks, scanned, passS, passI, fetched, outcome, response>>

FromScan == FromScanOver(MetaTags)

\* Metadata::from returns Ok(metadata) and resolve_external is called on it
FromReturn ==
    /\ pc = "scan"
    /\ scanned' = Some(metadata)
    /\ last' = None
    /\ pc' = "resolve"
    /\ UNCHANGED <<arg_url, nlinks, ntags, first_image, metadata, passS, passI, fetched, outcome,
                   response>>

\* resolve_external: self.special = Some(generate_special())
GenerateSpecial ==
    /\ pc = "resolve"
    /\ passS = "todo"
    /\ metadata' = SetSpecial(metadata)
    /\ passS' = "done"
    /\ UNCHANGED <<pc, arg_url, nlinks, ntags, last, first_image, scanned, passI, fetched, outcome,
                   response>>

\* resolve_image up to its suspension: return at once, or fetch(&image.url)
ResolveImageBegin ==
    /\ pc = "resolve"
    /\ passI = "todo"
    /\ IF ImageSkipsFetch(metadata)
       THEN passI' = "done" /\ fetched' = fetched
       ELSE passI' = "fetching" /\ fetched' = Append(fetched, metadata.image[1].url)
    /\ UNCHANGED <<pc, arg_url, nlinks, ntags, last, first_image, metadata, scanned, passS, outcome,
                   response>>

\* fetch and consume_size answer; on Err resolve_external drops the image
ResolveImageEnd ==
    /\ pc = "resolve"
    /\ passI = "fetching"
    /\ \E o \in FetchOutcomes :
         /\ metadata' = ImagePass(metadata, o)
         /\ outcome' = Some(o)
    /\ passI' = "done"
    /\ UNCHANGED <<pc, arg_url, nlinks, ntags, last, first_image, scanned, passS, fetched, response>>

\* resolve_external returns
ResolveExternalReturn ==
    /\ pc = "resolve"
    /\ passS = "done"
    /\ passI = "done"
    /\ pc' = "done"
    /\ UNCHANGED <<arg_url, nlinks, ntags, last, first_image, metadata, scanned, passS, passI, fetched,
                   outcome, response>>

\* resolve_external runs resolve_image after generate_special
SeqResolveImageBegin == passS = "done" /\ ResolveImageBegin

Next ==
    \/ RespondError
    \/ FromLinks
    \/ FromScan
    \/ FromReturn
    \/ GenerateSpecial
    \/ SeqResolveImageBegin
    \/ ResolveImageEnd
    \/ ResolveExternalReturn

Spec == Init /\ [][Next]_vars

(***************************************************************************)
(* The same request over the urls of the provider rules, the document      *)
(* holding no link tag and only video and image tags.                      *)
(***************************************************************************)
InitWide == InitOver(WideURLs)
WideFromLinks == FromLinksOver({<<>>})
WideFromScan == FromScanOver(WideMetaTags)

NextWide ==
    \/ RespondError
    \/ WideFromLinks
    \/ WideFromScan
    \/ FromReturn
    \/ GenerateSpecial
    \/ SeqResolveImageBegin
    \/ ResolveImageEnd
    \/ ResolveExternalReturn

SpecWide == InitWide /\ [][NextWide]_vars

(***************************************************************************)
(* The two passes of resolve_external scheduled concurrently: the image    *)
(* pass need not wait for the special pass.                                *)
(***************************************************************************)
ConcFromLinks == FromLinksOver(ConcLinkDocs)
ConcFromScan == FromScanOver(ConcMetaTags)

NextConc ==
    \/ RespondError
    \/ ConcFromLinks
    \/ ConcFromScan
    \/ FromReturn
    \/ GenerateSpecial
    \/ ResolveImageBegin
    \/ ResolveImageEnd
    \/ ResolveExternalReturn

SpecConc == Init /\ [][NextConc]_vars

(***************************************************************************)
(* Properties.                                                             *)
(***************************************************************************)
InResolve == pc \in {"resolve", "done"}

\* C3, as stated: every error kind is in one of two classes; disallowed proxy
\* target, malformed content-type, missing content-type and upstream request
\* failure are in the client class (400), every decode, parse or conversion
\* failure in the server class (500).
C3_ClassesAsStated ==
    response # None =>
        LET e == response[1].body.type
            status == response[1].status
        IN  /\ status \in {BAD_REQUEST, INTERNAL_SERVER_ERROR}
            /\ e \in {"NotAllowedToProxy", "FailedToParseContentType", "MissingContentType",
                      "RequestFailed"} => status = BAD_REQUEST
            /\ e \in {"CouldNotDetermineImageSize", "FailedToConsumeBytes", "FailedToConsumeText",
                      "MetaSelectionFailed", "ConversionFailed"} => status = INTERNAL_SERVER_ERROR

\* C3, amended: the client class (400) holds exactly NotAllowedToProxy,
\* MissingContentType and RequestFailed; every other kind, the malformed
\* content-type (FailedToParseContentType), ReqwestFailed and LabelMe among
\* them, is in the server class (500).
C3_Classes ==
    response # None =>
        LET e == response[1].body.type
            status == response[1].status
        IN  /\ e \in Error
            /\ status = IF e \in {"NotAllowedToProxy", "MissingContentType", "RequestFailed"}
                        THEN BAD_REQUEST ELSE INTERNAL_SERVER_ERROR

C3_Witness ==
    /\ pc = "error"
    /\ response # None
    /\ response[1].body.type = "FailedToParseContentType"
    /\ response[1].status = INTERNAL_SERVER_ERROR

\* C4, as stated: with an image whose width and height are both positive
\* resolve_image fetches nothing and leaves the image as it was; with an image
\* of which either dimension is not positive it fetches image.url; with no
\* image it fetches nothing.
C4_FetchAsStated ==
    (InResolve /\ passI # "todo") =>
        LET img == scanned[1].image
        IN  /\ img = None => fetched = <<>>
            /\ (img # None /\ img[1].width > 0 /\ img[1].height > 0) =>
                   (fetched = <<>> /\ metadata.image = img)
            /\ (img # None /\ ~(img[1].width > 0 /\ img[1].height > 0)) =>
                   fetched = <<img[1].url>>

\* C4, amended: with an image whose width and height are both nonzero (a
\* negative value included) resolve_image fetches nothing and leaves the image
\* as it was; with an image of which either dimension is zero it fetches
\* image.url, once; with no image it fetches nothing.
C4_Fetch ==
    (InResolve /\ passI # "todo") =>
        LET img == scanned[1].image
        IN  /\ img = None => fetched = <<>>
            /\ (img # None /\ img[1].width # 0 /\ img[1].height # 0) =>
                   (fetched = <<>> /\ metadata.image = img)
            /\ (img # None /\ (img[1].width = 0 \/ img[1].height = 0)) =>
                   fetched = <<img[1].url>>

C4_Witness ==
    /\ InResolve
    /\ passI = "done"
    /\ scanned[1].image # None
    /\ scanned[1].image[1].width < 0
    /\ scanned[1].image[1].height > 0
    /\ fetched = <<>>
    /\ metadata.image = scanned[1].image

\* the step in which the fetch or the size decoding fails drops the image and
\* nothing else
C5_FailureStep ==
    (outcome = None /\ outcome' # None /\ ~outcome'[1].ok) =>
        /\ metadata.special # None
        /\ metadata' = [metadata EXCEPT !.image = None]
        /\ response' = None
        /\ pc' = "resolve"

C5_AfterFailure ==
    /\ (outcome # None /\ ~outcome[1].ok) =>
           /\ InResolve
           /\ response = None
           /\ metadata.image = None
           /\ metadata = [scanned[1] EXCEPT !.image = None, !.special = metadata.special]
    /\ (pc = "done" /\ metadata.image # None) =>
           (metadata.image[1].width # 0 /\ metadata.image[1].height # 0)

C6_IntOf(value) ==
    CASE value = <<"6","0","0">> -> 600
      [] value = <<"-","5">> -> 0 - 5
      [] value = <<"4","0","0">> -> 400
      [] value = <<"6","4","0">> -> 640
      [] value = <<"+","3","6","0">> -> 360
      [] value = <<"0">> -> 0
      [] value = <<"a","b","c">> -> 0

\* after a width, height, theme-color or og:url tag the field is the tag's value
C6_LatestWins ==
    (pc = "scan" /\ last # None) =>
        LET name == last[1][1]
            value == last[1][2]
        IN  /\ name = <<"o","g",":","i","m","a","g","e",":","w","i","d","t","h">> =>
                (metadata.image # None /\ metadata.image[1].width = C6_IntOf(value))
            /\ name = <<"o","g",":","i","m","a","g","e",":","h","e","i","g","h","t">> =>
                (metadata.image # None /\ metadata.image[1].height = C6_IntOf(value))
            /\ name = <<"o","g",":","v","i","d","e","o",":","w","i","d","t","h">> =>
                (metadata.video # None /\ metadata.video[1].width = C6_IntOf(value))
            /\ name = <<"o","g",":","v","i","d","e","o",":","h","e","i","g","h","t">> =>
                (metadata.video # None /\ metadata.video[1].height = C6_IntOf(value))
            /\ name = <<"t","h","e","m","e","-","c","o","l","o","r">> => metadata.colour = Some(value)
            /\ name = <<"o","g",":","u","r","l">> => metadata.url = value

\* a title, description, image url or video url captured from a tag is kept by
\* the next iteration of the scan
C6_FirstWinsStep ==
    (pc = "scan" /\ pc' = "scan") =>
        /\ metadata.title # None => metadata'.title = metadata.title
        /\ metadata.description # None => metadata'.description = metadata.description
        /\ (metadata.image # None /\ metadata.image[1].url # <<>>) =>
               (metadata'.image # None /\ metadata'.image[1].url = metadata.image[1].url)
        /\ (metadata.video # None /\ metadata.video[1].url # <<>>) =>
               (metadata'.video # None /\ metadata'.video[1].url = metadata.video[1].url)

\* C6: during the scan a captured title, description, image url or video url
\* is never changed by a later tag, and after each width, height, theme-color
\* or og:url tag the field equals that tag's value (the integer parse, 0 when
\* it fails, for widths and heights).
C6_ScanOrder == [][C6_FirstWinsStep]_vars /\ []C6_LatestWins

C6_Witness ==
    /\ pc = "scan"
    /\ ntags = 2
    /\ last # None
    /\ last[1][1] \in TitleKeys
    /\ metadata.title # None
    /\ metadata.title # Some(last[1][2])

\* C10: once an image-url tag has been scanned, image.url is the content of
\* the first such tag, whatever image tags came before it.
C10_FirstImageUrlTag ==
    (pc = "scan" /\ first_image # None) =>
        (metadata.image # None /\ metadata.image[1].url = first_image[1])

\* resolve_external has returned: metadata.special is what the url resolved to
SpecialDone == pc = "done"

\* C1: a canonical url that matches the YouTube rule resolves to YouTube with
\* the captured id; the timestamp is the t= or start= parameter of the video
\* url when there is one, and it is absent when there is none or when no video
\* tag was captured.
C1_YouTube ==
    SpecialDone =>
        LET yt == Captures(RE_YOUTUBE, metadata.url)
            video == metadata.video
        IN  yt # None =>
              /\ metadata.special # None
              /\ metadata.special[1].type = "YouTube"
              /\ metadata.special[1].id = yt[1][1][1]
              /\ video = None => metadata.special[1].timestamp = None
              /\ video # None =>
                   LET ts == Captures(RE_TIMESTAMP, video[1].url)
                   IN  metadata.special[1].timestamp = IF ts # None THEN Some(ts[1][1][1]) ELSE None

EmptyDocumentDone == pc = "done" /\ ntags = 0 /\ nlinks = 0

\* C2, as stated: a document with no meta and no link tag gives is_none() and
\* the None variant, whatever the fallback url.
C2_EmptyAsStated ==
    EmptyDocumentDone =>
        /\ is_none(metadata)
        /\ metadata.special = Some(SpecialNone)

C2_MatchesTwitch(u) ==
    IsMatch(RE_TWITCH, u) \/ IsMatch(RE_TWITCH_VOD, u) \/ IsMatch(RE_TWITCH_CLIP, u)

\* C2, amended: a document with no meta and no link tag gives is_none(), the
\* fallback url as url, and a special decided by the fallback url alone: None
\* when it matches no provider rule or only the Bandcamp rule, but Twitch,
\* Spotify or Soundcloud when it matches that provider's rule.
C2_Empty ==
    EmptyDocumentDone =>
        LET u == arg_url
            yt == IsMatch(RE_YOUTUBE, u)
            tw == C2_MatchesTwitch(u)
            sp == IsMatch(RE_SPOTIFY, u)
            sc == IsMatch(RE_SOUNDCLOUD, u)
        IN  /\ is_none(metadata)
            /\ metadata.title = None /\ metadata.description = None /\ metadata.image = None
            /\ metadata.url = u
            /\ metadata.special # None
            /\ (~yt /\ ~tw /\ ~sp /\ ~sc) => metadata.special[1] = SpecialNone
            /\ (~yt /\ tw) => metadata.special[1].type = "Twitch"
            /\ (~yt /\ ~tw /\ sp) => metadata.special[1].type = "Spotify"
            /\ (~yt /\ ~tw /\ ~sp /\ sc) => metadata.special[1] = Soundcloud

C2_Witness ==
    /\ EmptyDocumentDone
    /\ is_none(metadata)
    /\ metadata.special # None
    /\ metadata.special[1].type = "Twitch"

StartsWith(s, prefix) == IsPrefixAt(prefix, s, 1)
DropFirst(s, n) == SubSeq(s, n + 1, Len(s))

C7_AfterScheme(u) ==
    IF StartsWith(u, <<"h","t","t","p","s",":","/","/">>) THEN DropFirst(u, 8)
    ELSE IF StartsWith(u, <<"h","t","t","p",":","/","/">>) THEN DropFirst(u, 7)
    ELSE u

\* the host of u is soundcloud.com
C7_OnSoundcloud(u) ==
    LET r == C7_AfterScheme(u)
    IN  /\ StartsWith(r, <<"s","o","u","n","d","c","l","o","u","d",".","c","o","m">>)
        /\ (Len(r) = 14 \/ r[15] \in {"/", "?", "#", ":"})

C7_Path(u) == DropFirst(C7_AfterScheme(u), 14)

\* path starts with /<user>/<track>: user of [a-zA-Z0-9-], track begun by [A-z0-9-]
C7_UserAndTrack(path) ==
    /\ Len(path) >= 4
    /\ path[1] = "/"
    /\ \E k \in 2..(Len(path) - 2) :
         /\ \A i \in 2..k : path[i] \in AlnumDash
         /\ path[k + 1] = "/"
         /\ path[k + 2] \in AzDigitDash

C7_NoEarlierRule(u) ==
    /\ ~IsMatch(RE_YOUTUBE, u)
    /\ ~C2_MatchesTwitch(u)
    /\ ~IsMatch(RE_SPOTIFY, u)

\* C7, as stated: every canonical url on the soundcloud.com domain that no
\* earlier rule matched resolves to Soundcloud, whatever its path.
C7_DomainOnlyAsStated ==
    (SpecialDone /\ C7_OnSoundcloud(metadata.url) /\ C7_NoEarlierRule(metadata.url)) =>
        metadata.special = Some(Soundcloud)

\* C7, amended: a canonical url on the soundcloud.com domain that no earlier
\* rule matched resolves to Soundcloud exactly when its path starts with two
\* non-empty segments /<user>/<track>; with any other path it resolves to None.
C7_UserTrackOnly ==
    (SpecialDone /\ C7_OnSoundcloud(metadata.url) /\ C7_NoEarlierRule(metadata.url)) =>
        metadata.special =
            Some(IF C7_UserAndTrack(C7_Path(metadata.url)) THEN Soundcloud ELSE SpecialNone)

C7_Witness ==
    /\ SpecialDone
    /\ metadata.url = <<"h","t","t","p","s",":","/","/","s","o","u","n","d","c","l","o","u","d",".","c","o","m","/","s","o","m","e","u","s","e","r","/","s","o","m","e","t","r","a","c","k">>
    /\ metadata.special = Some(Soundcloud)

\* C8: no url matches more than one of the three Twitch patterns, so their
\* order does not matter: a url of the VOD form resolves to Twitch with the
\* digits and Video, one of the clip form to the clip id and Clip, one of the
\* channel form to the channel and Channel.
C8_TwitchExclusive ==
    SpecialDone =>
        LET u == metadata.url
            ch == Captures(RE_TWITCH, u)
            vod == Captures(RE_TWITCH_VOD, u)
            clip == Captures(RE_TWITCH_CLIP, u)
        IN  /\ ~(ch # None /\ vod # None)
            /\ ~(ch # None /\ clip # None)
            /\ ~(vod # None /\ clip # None)
            /\ vod # None => metadata.special = Some(Twitch(vod[1][1][1], "Video"))
            /\ clip # None => metadata.special = Some(Twitch(clip[1][1][1], "Clip"))
            /\ ch # None => metadata.special = Some(Twitch(ch[1][1][1], "Channel"))
            /\ u = <<"h","t","t","p","s",":","/","/","t","w","i","t","c","h",".","t","v","/","v","i","d","e","o","s","/","9","9","8","8","7","7">> =>
                 metadata.special = Some(Twitch(<<"9","9","8","8","7","7">>, "Video"))
            /\ u = <<"h","t","t","p","s",":","/","/","t","w","i","t","c","h",".","t","v","/","s","o","m","e","u","s","e","r">> =>
                 metadata.special = Some(Twitch(<<"s","o","m","e","u","s","e","r">>, "Channel"))
            /\ u = <<"h","t","t","p","s",":","/","/","t","w","i","t","c","h",".","t","v","/","s","o","m","e","u","s","e","r","/","c","l","i","p","/","A","b","C","d","1","2">> =>
                 metadata.special = Some(Twitch(<<"A","b","C","d","1","2">>, "Clip"))

C8_Witness ==
    /\ SpecialDone
    /\ metadata.url = <<"h","t","t","p","s",":","/","/","t","w","i","t","c","h",".","t","v","/","s","o","m","e","u","s","e","r","/","c","l","i","p","/","A","b","C","d","1","2">>
    /\ metadata.special = Some(Twitch(<<"A","b","C","d","1","2">>, "Clip"))

\* what the secondary fetch answered; any answer when it was not asked
C9_Outcome == IF outcome # None THEN outcome[1] ELSE CHOOSE o \in FetchOutcomes : TRUE

\* C9: with the two passes scheduled in any order or interleaved, the special
\* pass writes special alone and decides it from the scanned url and video, the
\* image pass writes image alone and decides it from the scanned image and the
\* answer of the fetch, and resolve_external ends in the Metadata that the
\* sequential order gives.
C9_Independent ==
    InResolve =>
        LET m == scanned[1]
        IN  /\ metadata = [m EXCEPT !.special = metadata.special, !.image = metadata.image]
            /\ passS = "todo" => metadata.special = m.special
            /\ passS = "done" => metadata.special = Some(generate_special(m.url, m.video))
            /\ passI # "done" => metadata.image = m.image
            /\ passI = "done" => metadata.image = ImagePass(m, C9_Outcome).image
            /\ pc = "done" => metadata = resolve_external(m, C9_Outcome)

\* the image pass has ended with a fetch answered before the special pass began
C9_Witness ==
    /\ pc = "resolve"
    /\ passI = "done"
    /\ passS = "todo"
    /\ outcome # None
    /\ metadata.image # scanned[1].image

====
